---- MODULE Spec2Model ----
(***************************************************************************)
(* Model of the action-resolver and the auto-screenshot chain of           *)
(* ModernChatWidget (src/gui/chat_widget_modern.py) together with the      *)
(* button registry (src/services/coordinates_manager_new.py), the click    *)
(* service (src/services/automation_service_new.py) and the chat endpoint  *)
(* wrapper (src/services/api_client.py).                                   *)
(*                                                                         *)
(* A reply text is a sequence of tokens <<kind, payload>>:                 *)
(*   <<"lb","">>      a '{' character                                      *)
(*   <<"rb","">>      a '}' character                                      *)
(*   <<"prose","">>   text without braces and without the word "action"    *)
(*   <<"str",s>>      the member  "action": "s"                            *)
(*   <<"null","">>    the member  "action": null                           *)
(*   <<"num","">>     the member  "action": 7                              *)
(*   <<"list","">>    the member  "action": ["fold"]                       *)
(*   <<"other","">>   a member    "confidence": 1,                         *)
(*   <<"lit","">>     a member    "type": "action"   (the quoted word      *)
(*                    "action" occurs, but not as a key)                   *)
(***************************************************************************)
EXTENDS Integers, Sequences, FiniteSets, TLC

\* ---------------------------------------------------------------- bounds
MaxParts == 3     \* fragments per reply text given to the resolver
MaxCycles == 2    \* pending timers plus cycles in flight at which the hotkey stops starting more
MaxManual == 1    \* manual exchanges in flight
MaxTok == 2       \* distinct response ids the server hands out
MaxChats == 2     \* chat sessions
MaxUploads == 1   \* uploaded-image exchanges in flight
MaxCoord == 1     \* coordinate values typed into the dialog lie in -MaxCoord..MaxCoord
MaxQueue == 0     \* a user sends a message only while at most this many callbacks wait
MaxInterval == 6  \* seconds: the largest auto_screenshots_interval typed into the settings
MaxSide == 3      \* x, y of a box lie in -MaxSide..MaxSide, width and height in 0..MaxSide

\* ------------------------------------------------------------ vocabulary
None == "None"

LB == <<"lb", "">>
RB == <<"rb", "">>
Prose == <<"prose", "">>
Other == <<"other", "">>
Lit == <<"lit", "">>
ActStr(s) == <<"str", s>>
ActNull == <<"null", "">>
ActNum == <<"num", "">>
ActList == <<"list", "">>

\* button ids a user may have registered through the coordinates dialog
ButtonIds == {"fold", "call", "button_fold"}

\* action strings an AI reply may carry
ActionStrings == {"fold", "call", "button_fold", "button_call", "nope"}

\* -------------------------------------------------------------- registry
VARIABLES
    coordinates,    \* CoordinatesManager.coordinates["buttons"]: id |-> its "coordinates" list
    default_coordinates,    \* CoordinatesManager.default_coordinates["buttons"]
    shared,         \* coordinates["buttons"] and default_coordinates["buttons"] are one
                    \* dict object (after a shallow .copy() of default_coordinates)
    response_text,  \* the argument of _extract_action_from_response
    extracted,      \* its outcome: [ret |-> id or None, exc |-> raised to the caller]
    auto_screenshots_enabled,   \* ModernChatWidget.auto_screenshots_enabled
    analysis_in_progress,       \* ModernChatWidget.analysis_in_progress
    last_response_id,           \* ModernChatWidget.last_response_id (0 is None)
    current_chat_id,            \* ModernChatWidget.current_chat_id
    chats,                      \* the chat sessions of the ChatManager
    ai_automation_enabled,      \* ScreenshotSettingsService.settings["ai_automation_enabled"]
    threads,                    \* the background threads that are running
    uiQueue,                    \* callbacks handed to the UI loop with self.after
    ctx,                        \* history: response id of the last successful exchange since the
                                \*          last set_current_chat, -1 when there is none
    switched,                   \* history: the chat was switched and no exchange was issued since
    armed,                      \* history: per cycle in flight, the continuations it has armed
    auto_screenshots_interval,  \* ModernChatWidget.auto_screenshots_interval, in seconds
    dispatches,                 \* history: per cycle, its calls of perform_button_action
    out                         \* what the latest step did to the outside: the click it
                                \* dispatched and its point, its capture attempts, the error
                                \* entries it added to the transcript, the failures that
                                \* occurred and the delay of the timer it armed

resolverVars == <<coordinates, default_coordinates, shared, response_text, extracted>>

chainVars == <<auto_screenshots_enabled, analysis_in_progress, last_response_id,
               current_chat_id, chats, ai_automation_enabled, threads, uiQueue,
               ctx, switched, armed, auto_screenshots_interval, dispatches>>

vars == <<resolverVars, chainVars, out>>

\* list(self.coordinates.get("buttons", {}).keys())
get_available_button_ids(buttons) == DOMAIN buttons

\* ------------------------------------------------------------- resolver
\* the literal  "action"  (with its quotes) occurs in the token
HasActionLiteral(tok) == tok[1] \in {"str", "null", "num", "list", "lit"}

IsMember(tok) == tok[1] \in {"str", "null", "num", "list", "lit", "other"}

IsActionMember(tok) == tok[1] \in {"str", "null", "num", "list"}

\* index of the first '}' at or after position i, 0 when there is none
FirstRB(text, i) ==
    LET js == {j \in i..Len(text) : text[j] = RB}
    IN  IF js = {} THEN 0 ELSE CHOOSE j \in js : \A k \in js : j <= k

\* re.findall(r'\{[^}]*"action"[^}]*\}', text): leftmost, non-overlapping
RECURSIVE FindAll(_, _)
FindAll(text, i) ==
    IF i > Len(text) THEN <<>>
    ELSE IF text[i] # LB THEN FindAll(text, i + 1)
    ELSE LET j == FirstRB(text, i + 1)
         IN  IF j # 0 /\ \E k \in (i + 1)..(j - 1) : HasActionLiteral(text[k])
             THEN <<SubSeq(text, i, j)>> \o FindAll(text, j + 1)
             ELSE FindAll(text, i + 1)

\* json.loads(match): the text between the braces must be a list of members
JsonLoads(match) ==
    LET inner == SubSeq(match, 2, Len(match) - 1)
    IN  IF \A k \in 1..Len(inner) : IsMember(inner[k])
        THEN [ok |-> TRUE, members |-> inner]
        ELSE [ok |-> FALSE, members |-> <<>>]

\* data.get("action"): the value of the last "action" key, None when absent
DataGetAction(members) ==
    LET ks == {k \in 1..Len(members) : IsActionMember(members[k])}
    IN  IF ks = {} THEN ActNull
        ELSE members[CHOOSE k \in ks : \A m \in ks : m <= k]

\* Python truthiness of the parsed value
Truthy(val) == \/ val[1] = "str" /\ val[2] # ""
               \/ val[1] \in {"num", "list"}

\* the table without its button_* entries
action_map_no_alias(s) ==
    IF s \in {"fold", "call", "raise", "check"} THEN s ELSE None

\* action_map.get(action) for a hashable action
action_map(s) ==
    CASE s = "button_fold"  -> "fold"
      [] s = "button_call"  -> "call"
      [] s = "button_raise" -> "raise"
      [] s = "button_check" -> "check"
      [] s = "fold"         -> "fold"
      [] s = "call"         -> "call"
      [] s = "raise"        -> "raise"
      [] s = "check"        -> "check"
      [] OTHER              -> None

\* the iteration without the test  mapped_action in available_buttons
CandidateNoRegistryTest(match, buttons) ==
    LET data == JsonLoads(match)
        action == DataGetAction(data.members)
        available_buttons == get_available_button_ids(buttons)
    IN  IF ~data.ok THEN [k |-> "continue", v |-> None]
        ELSE IF ~Truthy(action) THEN [k |-> "continue", v |-> None]
        ELSE IF action[1] = "str" /\ action[2] \in available_buttons
             THEN [k |-> "return", v |-> action[2]]
        ELSE IF action[1] = "list" THEN [k |-> "raise", v |-> None]
        ELSE LET mapped_action == IF action[1] = "str" THEN action_map(action[2]) ELSE None
             IN  IF mapped_action # None
                 THEN [k |-> "return", v |-> mapped_action]
                 ELSE [k |-> "continue", v |-> None]

\* one iteration of the loop over the matches:
\*   "return" with a value, "continue" to the next match, or "raise"
Candidate(match, buttons) ==
    LET data == JsonLoads(match)
        action == DataGetAction(data.members)
        available_buttons == get_available_button_ids(buttons)
    IN  IF ~data.ok THEN [k |-> "continue", v |-> None]
        ELSE IF ~Truthy(action) THEN [k |-> "continue", v |-> None]
        ELSE IF action[1] = "str" /\ action[2] \in available_buttons
             THEN [k |-> "return", v |-> action[2]]
        ELSE IF action[1] = "list" THEN [k |-> "raise", v |-> None]
        ELSE LET mapped_action == IF action[1] = "str" THEN action_map(action[2]) ELSE None
             IN  IF mapped_action # None /\ mapped_action \in available_buttons
                 THEN [k |-> "return", v |-> mapped_action]
                 ELSE [k |-> "continue", v |-> None]

RECURSIVE MatchLoop(_, _)
MatchLoop(matches, buttons) ==
    IF matches = <<>> THEN [k |-> "return", v |-> None]
    ELSE LET c == Candidate(Head(matches), buttons)
         IN  IF c.k = "continue" THEN MatchLoop(Tail(matches), buttons) ELSE c

\* the function without its outer try/except: a TypeError reaches the caller
ExtractNoHandler(text, buttons) ==
    LET r == MatchLoop(FindAll(text, 1), buttons)
    IN  [ret |-> r.v, exc |-> r.k = "raise"]

\* the outer try/except: every exception becomes the return value None
_extract_action_from_response(text, buttons) ==
    LET r == MatchLoop(FindAll(text, 1), buttons)
    IN  [ret |-> r.v, exc |-> FALSE]

\* ------------------------------------------------------- resolver inputs
\* an action object  {"action": v}
Obj(tok) == <<LB, tok, RB>>

Fragments ==
    {<<Prose>>, <<LB>>, <<RB>>}
    \cup {Obj(ActStr(s)) : s \in ActionStrings}
    \cup {Obj(ActList), Obj(ActNull), Obj(ActNum), Obj(Lit)}
    \cup {<<LB, Other, ActStr("fold"), RB>>,
          <<LB, ActStr("call"), LB, Other, RB, RB>>}

RECURSIVE Flatten(_)
Flatten(parts) == IF parts = <<>> THEN <<>> ELSE Head(parts) \o Flatten(Tail(parts))

Texts == {Flatten(ps) : ps \in UNION {[1..n -> Fragments] : n \in 0..MaxParts}}

Pending == [ret |-> "pending", exc |-> FALSE]


\* ------------------------------------------------------------ chain state
NoneId == 0

\* self.after(100, self.take_auto_screenshot): the delay, in ms, of the timer a
\* finished cycle arms
SettleDelay == 100

\* self.after(200, self.take_auto_screenshot): the delay, in ms, of the retry
\* take_auto_screenshot arms while analysis_in_progress is set
RetryDelay == 200

\* "auto_screenshots_interval": 5, the setting a new installation starts with
DefaultInterval == 5

\* the intervals, in seconds, the settings dialog saves (values below 1 are
\* replaced by 5)
Intervals == DefaultInterval..MaxInterval

\* CoordinatesManager.default_coordinates["buttons"]
DefaultButtons ==
    [b \in {"fold", "call", "raise", "check"} |->
        CASE b = "fold"  -> <<1400, 800, 110, 55>>
          [] b = "call"  -> <<1550, 800, 110, 55>>
          [] b = "raise" -> <<1700, 800, 110, 55>>
          [] b = "check" -> <<1400, 750, 110, 55>>]

\* coordinate lists the user gives a button that is added again: a bounding
\* box, and a list without values
EditedCoords == {<<1400, 800, 110, 55>>, <<>>}

\* the id the user removes and adds again in the coordinates dialog
EditedIds == {"fold"}

\* texts the image analysis returns, and replies of the chat endpoint
AnalysisTexts == {<<Prose>>, Obj(ActStr("call"))}
ChatReplies == {<<Prose>>, <<Prose>> \o Obj(ActStr("button_fold"))}

\* a background thread: its target (kind), where it is (pc), the cycle or the
\* manual exchange it belongs to (id), the previous_response_id of the request
\* it has posted (prev), the action it resolved (action); fresh is history:
\* the exchange is the first one issued after a chat switch; chat is history:
\* the chat that was current when the thread was started
Thread(kind, pc, id, prev, action, fresh) ==
    [kind |-> kind, pc |-> pc, id |-> id, prev |-> prev, action |-> action, fresh |-> fresh,
     chat |-> current_chat_id]

\* self.after(0, lambda: self._check_and_execute_automation(text))
Check(text, c) == [cb |-> "check_automation", text |-> text, cyc |-> c]
\* self.after(ms, self.take_auto_screenshot); the delay ms is kept in out.delay
Timer == [cb |-> "take_auto_screenshot", text |-> <<>>, cyc |-> 0]

NumTimers(q) == Cardinality({i \in 1..Len(q) : q[i] = Timer})

Remove(q, i) == SubSeq(q, 1, i - 1) \o SubSeq(q, i + 1, Len(q))

Least(S) == CHOOSE x \in S : \A y \in S : x <= y

CycleThreads == {t \in threads : t.kind \in {"analyze", "chat"}}

ManualThreads == {t \in threads : t.kind = "manual"}

\* a cycle is in flight while one of its threads runs or its automation
\* check still waits in the UI loop
CycleLive(c) ==
    \/ \E t \in CycleThreads : t.id = c
    \/ \E i \in 1..Len(uiQueue) : uiQueue[i].cyc = c

LiveCycles == {c \in 1..MaxCycles : CycleLive(c)}

FreeCycles == (1..MaxCycles) \ LiveCycles

\* the chat thread t arms a continuation and ends: the count of its cycle goes
\* up, and back to 0 when the cycle has no thread left
Arm(t) ==
    armed' = IF t.id \in DOMAIN armed
             THEN [armed EXCEPT ![t.id] =
                    IF \E u \in CycleThreads \ {t} : u.id = t.id THEN @ + 1 ELSE 0]
             ELSE armed

\* pending timers plus cycles in flight
ChainLoad == NumTimers(uiQueue) + Cardinality(LiveCycles)

\* CoordinatesManager.get_button_coordinates: None for an id that is not registered
get_button_coordinates(button_id, buttons) ==
    IF button_id \in DOMAIN buttons THEN buttons[button_id] ELSE <<>>

\* CoordinatesManager.get_button_center is defined: the list unpacks into
\* x, y, width, height
HasCenter(button_id, buttons) ==
    LET coords == get_button_coordinates(button_id, buttons)
    IN  coords # <<>> /\ Len(coords) = 4

\* get_button_center with the click in the far corner of the box
get_button_center_corner(button_id, buttons) ==
    LET coords == get_button_coordinates(button_id, buttons)
    IN  <<coords[1] + coords[3], coords[2] + coords[4]>>

\* CoordinatesManager.get_button_center: (x + width // 2, y + height // 2),
\* and None (<<>>) for a button without a list of four values
get_button_center(button_id, buttons) ==
    LET coords == get_button_coordinates(button_id, buttons)
    IN  IF Len(coords) = 4
        THEN <<coords[1] + (coords[3] \div 2), coords[2] + (coords[4] \div 2)>>
        ELSE <<>>

\* perform_button_action that clicks whatever id it is given
perform_button_action_unchecked(button_id, buttons) == TRUE

\* AutomationService.perform_button_action: False without coordinates or
\* without a center, True after the click
perform_button_action(button_id, buttons) ==
    /\ get_button_coordinates(button_id, buttons) # <<>>
    /\ HasCenter(button_id, buttons)

\* a step without click, capture, error entry or failure
NoOut == [click |-> None, point |-> <<>>, attempts |-> 0, errors |-> 0, failures |-> 0,
          missing |-> None, delay |-> 0]

Quiet == out' = NoOut

\* pyautogui.click(center_x, center_y) at the center of button_id
Clicked(button_id) ==
    [NoOut EXCEPT !.click = button_id,
                  !.point = get_button_center(button_id, coordinates)]

Click(button_id) == out' = Clicked(button_id)

\* a failure that is reported with one add_message(..., "error")
Failed == [NoOut EXCEPT !.errors = 1, !.failures = 1]

ErrorEntry == out' = Failed

\* the error entry for a button that could not be clicked: it names the action
\* and lists get_available_button_ids()
NotFound(action) == [Failed EXCEPT !.missing = action]

NotFoundEntry(action) == out' = NotFound(action)

ChainInit ==
    /\ out = NoOut
    /\ auto_screenshots_enabled = FALSE
    /\ analysis_in_progress = FALSE
    /\ last_response_id = NoneId
    /\ current_chat_id = 1
    /\ chats = {1}
    /\ ai_automation_enabled = FALSE
    /\ threads = {}
    /\ uiQueue = <<>>
    /\ ctx = -1
    /\ switched = FALSE
    /\ armed = [c \in 1..MaxCycles |-> 0]
    /\ auto_screenshots_interval = DefaultInterval
    /\ dispatches = [c \in 1..MaxCycles |-> 0]

\* a first start without coordinates.json: load_coordinates returns
\* default_coordinates.copy(), a shallow copy
Init ==
    /\ coordinates = DefaultButtons
    /\ default_coordinates = DefaultButtons
    /\ shared = TRUE
    /\ response_text = <<>>
    /\ extracted = Pending
    /\ ChainInit

\* ------------------------------------------------------ UI loop: the chain
\* what happens to the capture in take_quick_screenshot: the first
\* capture_full_screen returns a path; it returns None and the retry returns a
\* path; both return None; the capture raises
CaptureOutcomes == {"ok", "retry_ok", "fail", "raise"}

\* take_quick_screenshot as called by take_auto_screenshot: it catches its own
\* exceptions; with a screenshot it starts the analysis thread, without one
\* (both attempts failed, or an exception) it only reports the error
take_quick_screenshot(q) ==
    \E outcome \in CaptureOutcomes :
        /\ uiQueue' = q
        /\ IF outcome \in {"ok", "retry_ok"}
           THEN threads' = threads \cup
                    {Thread("analyze", "start", Least(FreeCycles), NoneId, None, FALSE)}
           ELSE UNCHANGED threads
        /\ out' = [NoOut EXCEPT
                    !.attempts = IF outcome \in {"retry_ok", "fail"} THEN 2 ELSE 1,
                    !.errors = IF outcome \in {"fail", "raise"} THEN 1 ELSE 0,
                    !.failures = IF outcome \in {"fail", "raise"} THEN 1 ELSE 0]

\* take_auto_screenshot that gives up while analysis_in_progress is set
take_auto_screenshot_no_retry(q, enabled) ==
    IF ~enabled \/ analysis_in_progress
    THEN uiQueue' = q /\ Quiet /\ UNCHANGED threads
    ELSE /\ FreeCycles # {}
         /\ take_quick_screenshot(q)

\* take_auto_screenshot without the test of auto_screenshots_enabled
take_auto_screenshot_always(q, enabled) ==
    IF analysis_in_progress
    THEN /\ uiQueue' = Append(q, Timer)
         /\ out' = [NoOut EXCEPT !.delay = RetryDelay]
         /\ UNCHANGED threads
    ELSE /\ FreeCycles # {}
         /\ take_quick_screenshot(q)

\* take_auto_screenshot, started from the queue q with the flag value enabled
take_auto_screenshot(q, enabled) ==
    IF ~enabled
    THEN uiQueue' = q /\ Quiet /\ UNCHANGED threads
    ELSE IF analysis_in_progress
    THEN /\ uiQueue' = Append(q, Timer)
         /\ out' = [NoOut EXCEPT !.delay = RetryDelay]
         /\ UNCHANGED threads
    ELSE /\ FreeCycles # {}
         /\ take_quick_screenshot(q)

\* the hotkey with a start that waits for a timer
toggle_auto_screenshots_delayed ==
    /\ ~auto_screenshots_enabled => ChainLoad < MaxCycles
    /\ auto_screenshots_enabled' = ~auto_screenshots_enabled
    /\ IF ~auto_screenshots_enabled
       THEN /\ uiQueue' = Append(uiQueue, Timer)
            /\ out' = [NoOut EXCEPT !.delay = SettleDelay]
            /\ UNCHANGED threads
       ELSE Quiet /\ UNCHANGED <<threads, uiQueue>>
    /\ UNCHANGED <<resolverVars, auto_screenshots_interval, dispatches, armed,
                   analysis_in_progress, last_response_id, current_chat_id,
                   chats, ai_automation_enabled, ctx, switched>>

\* the hotkey: toggle_auto_screenshots with start_auto_screenshots and
\* stop_auto_screenshots (auto_screenshots_timer is never set, nothing to cancel)
toggle_auto_screenshots ==
    /\ ~auto_screenshots_enabled => ChainLoad < MaxCycles
    /\ auto_screenshots_enabled' = ~auto_screenshots_enabled
    /\ IF ~auto_screenshots_enabled
       THEN \* start_auto_screenshots
            take_auto_screenshot(uiQueue, TRUE)
       ELSE \* stop_auto_screenshots
            Quiet /\ UNCHANGED <<threads, uiQueue>>
    /\ UNCHANGED <<resolverVars, auto_screenshots_interval, dispatches, armed, analysis_in_progress, last_response_id, current_chat_id,
                   chats, ai_automation_enabled, ctx, switched>>

\* the screenshot button of the input area: take_quick_screenshot on its own
screenshot_button ==
    /\ FreeCycles # {}
    /\ take_quick_screenshot(uiQueue)
    /\ UNCHANGED <<resolverVars, auto_screenshots_interval, dispatches, armed, auto_screenshots_enabled, analysis_in_progress,
                   last_response_id, current_chat_id, chats, ai_automation_enabled,
                   ctx, switched>>

\* a timer armed with self.after(ms, self.take_auto_screenshot) fires
TimerFires ==
    /\ uiQueue # <<>>
    /\ Head(uiQueue) = Timer
    /\ take_auto_screenshot(Tail(uiQueue), auto_screenshots_enabled)
    /\ UNCHANGED <<resolverVars, auto_screenshots_interval, dispatches, armed, auto_screenshots_enabled, analysis_in_progress,
                   last_response_id, current_chat_id, chats, ai_automation_enabled,
                   ctx, switched>>

\* the oldest after(0, ...) callback runs; timers armed before it may still wait
FirstIdle ==
    LET is == {i \in 1..Len(uiQueue) : uiQueue[i] # Timer}
    IN  IF is = {} THEN 0 ELSE Least(is)

\* the callback without the test of ai_automation_enabled
check_and_execute_unconditional(text) ==
    LET action == _extract_action_from_response(text, coordinates).ret
    IN  IF action = None THEN Quiet
        ELSE IF perform_button_action(action, coordinates) THEN Click(action)
        ELSE NotFoundEntry(action)

\* _check_and_execute_automation(text) on the UI loop
check_and_execute_automation(text) ==
    IF ~ai_automation_enabled THEN Quiet
    ELSE LET action == _extract_action_from_response(text, coordinates).ret
         IN  IF action = None THEN Quiet
             ELSE IF perform_button_action(action, coordinates) THEN Click(action)
             ELSE NotFoundEntry(action)

\* _check_and_execute_automation(text) gets as far as perform_button_action
Dispatches(text) ==
    /\ ai_automation_enabled
    /\ _extract_action_from_response(text, coordinates).ret # None

IdleCallback ==
    /\ FirstIdle # 0
    /\ uiQueue' = Remove(uiQueue, FirstIdle)
    /\ check_and_execute_automation(uiQueue[FirstIdle].text)
    /\ dispatches' =
            IF /\ uiQueue[FirstIdle].cyc \in DOMAIN dispatches
               /\ Dispatches(uiQueue[FirstIdle].text)
            THEN [dispatches EXCEPT ![uiQueue[FirstIdle].cyc] = @ + 1]
            ELSE dispatches
    /\ UNCHANGED <<resolverVars, auto_screenshots_interval, armed, auto_screenshots_enabled, analysis_in_progress,
                   last_response_id, current_chat_id, chats, ai_automation_enabled,
                   threads, ctx, switched>>

\* ------------------------------------------- thread _analyze_screenshot_async
AnalyzeBegin(t) ==
    /\ Quiet
    /\ t.kind = "analyze" /\ t.pc = "start"
    /\ analysis_in_progress' = TRUE
    /\ threads' = (threads \ {t}) \cup {[t EXCEPT !.pc = "request"]}
    /\ dispatches' = [dispatches EXCEPT ![t.id] = 0]
    /\ UNCHANGED <<resolverVars, auto_screenshots_interval, armed, auto_screenshots_enabled, last_response_id, current_chat_id,
                   chats, ai_automation_enabled, uiQueue, ctx, switched>>

\* analyze_image returns; on success the thread _send_analysis_to_chat is started
AnalyzeResponse(t) ==
    /\ t.kind = "analyze" /\ t.pc = "request"
    /\ \E success \in BOOLEAN :
        IF success
        THEN \E analysis \in AnalysisTexts :
                /\ uiQueue' = Append(uiQueue, Check(analysis, t.id))
                /\ threads' = (threads \ {t}) \cup
                        {[t EXCEPT !.pc = "finally"],
                         Thread("chat", "start", t.id, NoneId, None, switched)}
                /\ switched' = FALSE
                /\ Quiet
        ELSE /\ threads' = (threads \ {t}) \cup {[t EXCEPT !.pc = "finally"]}
             /\ ErrorEntry
             /\ UNCHANGED <<uiQueue, switched>>
    /\ UNCHANGED <<resolverVars, auto_screenshots_interval, dispatches, armed, auto_screenshots_enabled, analysis_in_progress,
                   last_response_id, current_chat_id, chats, ai_automation_enabled, ctx>>

AnalyzeFinally(t) ==
    /\ Quiet
    /\ t.kind = "analyze" /\ t.pc = "finally"
    /\ analysis_in_progress' = FALSE
    /\ threads' = threads \ {t}
    /\ armed' = [armed EXCEPT ![t.id] =
                    IF \E u \in CycleThreads \ {t} : u.id = t.id THEN @ ELSE 0]
    /\ UNCHANGED <<resolverVars, auto_screenshots_interval, dispatches, auto_screenshots_enabled, last_response_id, current_chat_id,
                   chats, ai_automation_enabled, uiQueue, ctx, switched>>

\* ---------------------------------------------- thread _send_analysis_to_chat
\* the request posted without the previous_response_id
ChatSendNoToken(t) ==
    /\ Quiet
    /\ t.kind = "chat" /\ t.pc = "start"
    /\ threads' = (threads \ {t}) \cup {[t EXCEPT !.pc = "request"]}
    /\ UNCHANGED <<resolverVars, auto_screenshots_interval, dispatches, armed, auto_screenshots_enabled, analysis_in_progress,
                   last_response_id, current_chat_id, chats, ai_automation_enabled,
                   uiQueue, ctx, switched>>

\* APIClient.send_message(analysis, self.last_response_id) posts its request
ChatSend(t) ==
    /\ Quiet
    /\ t.kind = "chat" /\ t.pc = "start"
    /\ threads' = (threads \ {t}) \cup {[t EXCEPT !.pc = "request", !.prev = last_response_id]}
    /\ UNCHANGED <<resolverVars, auto_screenshots_interval, dispatches, armed, auto_screenshots_enabled, analysis_in_progress,
                   last_response_id, current_chat_id, chats, ai_automation_enabled,
                   uiQueue, ctx, switched>>

\* the handler with schedule_next_screenshot for a reply without action: the
\* timer is armed with auto_screenshots_interval * 1000
HandleReplyInterval(t, reply) ==
    IF ~ai_automation_enabled
    THEN /\ uiQueue' = Append(uiQueue, Timer)
         /\ threads' = threads \ {t}
         /\ Arm(t)
         /\ out' = [NoOut EXCEPT !.failures = 1, !.delay = SettleDelay]
    ELSE LET action == _extract_action_from_response(reply, coordinates).ret
         IN  IF action = None
             THEN /\ uiQueue' = Append(uiQueue, Timer)
                  /\ threads' = threads \ {t}
                  /\ Arm(t)
                  /\ out' = [NoOut EXCEPT !.delay = auto_screenshots_interval * 1000]
             ELSE /\ threads' = (threads \ {t}) \cup
                            {[t EXCEPT !.pc = "acting", !.action = action]}
                  /\ Quiet
                  /\ UNCHANGED <<uiQueue, armed>>

\* _handle_ai_response_with_smart_scheduling up to perform_button_action
HandleReply(t, reply) ==
    IF ~ai_automation_enabled
    THEN \* self._schedule_next_screenshot_safe() does not exist: AttributeError,
         \* and the except clause arms the timer
         /\ uiQueue' = Append(uiQueue, Timer)
         /\ threads' = threads \ {t}
         /\ Arm(t)
         /\ out' = [NoOut EXCEPT !.failures = 1, !.delay = SettleDelay]
    ELSE LET action == _extract_action_from_response(reply, coordinates).ret
         IN  IF action = None
             THEN /\ uiQueue' = Append(uiQueue, Timer)
                  /\ threads' = threads \ {t}
                  /\ Arm(t)
                  /\ out' = [NoOut EXCEPT !.delay = SettleDelay]
             ELSE /\ threads' = (threads \ {t}) \cup
                            {[t EXCEPT !.pc = "acting", !.action = action]}
                  /\ Quiet
                  /\ UNCHANGED <<uiQueue, armed>>

ChatResponse(t) ==
    /\ t.kind = "chat" /\ t.pc = "request"
    /\ \E success \in BOOLEAN :
        IF success
        THEN \E rid \in 1..MaxTok, reply \in ChatReplies :
                /\ last_response_id' = rid
                /\ ctx' = rid
                /\ HandleReply(t, reply)
        ELSE /\ uiQueue' = Append(uiQueue, Timer)
             /\ threads' = threads \ {t}
             /\ Arm(t)
             /\ out' = [Failed EXCEPT !.delay = SettleDelay]
             /\ UNCHANGED <<last_response_id, ctx>>
    /\ UNCHANGED <<resolverVars, auto_screenshots_interval, dispatches, auto_screenshots_enabled, analysis_in_progress,
                   current_chat_id, chats, ai_automation_enabled, switched>>

\* perform_button_action and the branch on its result
ChatAct(t) ==
    /\ t.kind = "chat" /\ t.pc = "acting"
    /\ uiQueue' = Append(uiQueue, Timer)
    /\ threads' = threads \ {t}
    /\ Arm(t)
    /\ out' = [(IF perform_button_action(t.action, coordinates)
                THEN Clicked(t.action)
                ELSE NotFound(t.action)) EXCEPT !.delay = SettleDelay]
    /\ dispatches' = IF t.id \in DOMAIN dispatches
                     THEN [dispatches EXCEPT ![t.id] = @ + 1]
                     ELSE dispatches
    /\ UNCHANGED <<resolverVars, auto_screenshots_interval, auto_screenshots_enabled, analysis_in_progress,
                   last_response_id, current_chat_id, chats, ai_automation_enabled,
                   ctx, switched>>

\* ------------------------------------------------------- manual chat message
send_message ==
    /\ Quiet
    /\ Cardinality(ManualThreads) < MaxManual
    /\ Len(uiQueue) <= MaxQueue
    /\ threads' = threads \cup
            {Thread("manual", "start",
                    Least((1..MaxManual) \ {t.id : t \in ManualThreads}),
                    NoneId, None, switched)}
    /\ switched' = FALSE
    /\ UNCHANGED <<resolverVars, auto_screenshots_interval, dispatches, armed, auto_screenshots_enabled, analysis_in_progress,
                   last_response_id, current_chat_id, chats, ai_automation_enabled,
                   uiQueue, ctx>>

\* thread _send_to_api: APIClient.send_message(message, self.last_response_id)
ManualSend(t) ==
    /\ Quiet
    /\ t.kind = "manual" /\ t.pc = "start"
    /\ threads' = (threads \ {t}) \cup {[t EXCEPT !.pc = "request", !.prev = last_response_id]}
    /\ UNCHANGED <<resolverVars, auto_screenshots_interval, dispatches, armed, auto_screenshots_enabled, analysis_in_progress,
                   last_response_id, current_chat_id, chats, ai_automation_enabled,
                   uiQueue, ctx, switched>>

\* the manual exchange that forgets the response id when it fails
ManualResponseClearsToken(t) ==
    /\ t.kind = "manual" /\ t.pc = "request"
    /\ \E success \in BOOLEAN :
        IF success
        THEN \E rid \in 1..MaxTok, reply \in ChatReplies :
                /\ last_response_id' = rid
                /\ ctx' = rid
                /\ uiQueue' = Append(uiQueue, Check(reply, 0))
                /\ Quiet
        ELSE ErrorEntry /\ last_response_id' = NoneId /\ UNCHANGED <<ctx, uiQueue>>
    /\ threads' = threads \ {t}
    /\ UNCHANGED <<resolverVars, auto_screenshots_interval, dispatches, armed,
                   auto_screenshots_enabled, analysis_in_progress,
                   current_chat_id, chats, ai_automation_enabled, switched>>

\* _send_to_api: the response of APIClient.send_message arrives
ManualResponse(t) ==
    /\ t.kind = "manual" /\ t.pc = "request"
    /\ \E success \in BOOLEAN :
        IF success
        THEN \E rid \in 1..MaxTok, reply \in ChatReplies :
                /\ last_response_id' = rid
                /\ ctx' = rid
                /\ uiQueue' = Append(uiQueue, Check(reply, 0))
                /\ Quiet
        ELSE ErrorEntry /\ UNCHANGED <<last_response_id, ctx, uiQueue>>
    /\ threads' = threads \ {t}
    /\ UNCHANGED <<resolverVars, auto_screenshots_interval, dispatches, armed, auto_screenshots_enabled, analysis_in_progress,
                   current_chat_id, chats, ai_automation_enabled, switched>>

\* ------------------------------------------------------ uploaded image
\* the threads of the uploaded-image exchanges: _analyze_uploaded_image_async
\* and the _send_analysis_to_chat it starts; their ids are -1, -2, ...
UploadThreads == {t \in threads : t.id < 0}

\* attach_image -> analyze_uploaded_image: a missing file or an extension that
\* is not supported is reported, otherwise the analysis thread is started
analyze_uploaded_image ==
    /\ Cardinality({t.id : t \in UploadThreads}) < MaxUploads
    /\ Len(uiQueue) <= MaxQueue
    /\ \E valid \in BOOLEAN :
        IF valid
        THEN /\ threads' = threads \cup
                    {Thread("upload", "request",
                            -Least((1..MaxUploads) \ {-t.id : t \in UploadThreads}),
                            NoneId, None, FALSE)}
             /\ Quiet
        ELSE ErrorEntry /\ UNCHANGED threads
    /\ UNCHANGED <<resolverVars, auto_screenshots_interval, dispatches, armed, auto_screenshots_enabled, analysis_in_progress,
                   last_response_id, current_chat_id, chats, ai_automation_enabled,
                   uiQueue, ctx, switched>>

\* _analyze_uploaded_image_async: analyze_image returns; an analysis (in the
\* field "analysis" or "message") is checked for an action and sent to the chat
UploadResponse(t) ==
    /\ t.kind = "upload" /\ t.pc = "request"
    /\ \E success \in BOOLEAN :
        IF success
        THEN \E analysis \in AnalysisTexts :
                /\ uiQueue' = Append(uiQueue, Check(analysis, 0))
                /\ threads' = (threads \ {t}) \cup
                        {Thread("chat", "start", t.id, NoneId, None, switched)}
                /\ switched' = FALSE
                /\ Quiet
        ELSE /\ threads' = threads \ {t}
             /\ ErrorEntry
             /\ UNCHANGED <<uiQueue, switched>>
    /\ UNCHANGED <<resolverVars, auto_screenshots_interval, dispatches, armed, auto_screenshots_enabled, analysis_in_progress,
                   last_response_id, current_chat_id, chats, ai_automation_enabled, ctx>>

\* ------------------------------------------------------------ chat sessions
\* the sidebar button of chat c: MainWindow.select_chat -> set_current_chat
set_current_chat(c) ==
    /\ Quiet
    /\ c \in chats
    /\ current_chat_id' = c
    /\ last_response_id' = NoneId
    /\ ctx' = -1
    /\ switched' = (switched \/ c # current_chat_id)
    /\ UNCHANGED <<resolverVars, auto_screenshots_interval, dispatches, armed, auto_screenshots_enabled, analysis_in_progress, chats,
                   ai_automation_enabled, threads, uiQueue>>

create_new_chat ==
    /\ Quiet
    /\ Cardinality(chats) < MaxChats
    /\ LET chat_id == Least((1..MaxChats) \ chats)
       IN  /\ chats' = chats \cup {chat_id}
           /\ current_chat_id' = chat_id
    /\ switched' = TRUE
    /\ UNCHANGED <<resolverVars, auto_screenshots_interval, dispatches, armed, auto_screenshots_enabled, analysis_in_progress,
                   last_response_id, ai_automation_enabled, threads, uiQueue, ctx>>

\* ------------------------------------------------- settings and the registry
\* the settings dialog saves ai_automation_enabled, the interval stays as it was
save_settings ==
    /\ Quiet
    /\ ai_automation_enabled' = ~ai_automation_enabled
    /\ UNCHANGED <<resolverVars, auto_screenshots_interval, dispatches, armed, auto_screenshots_enabled, analysis_in_progress,
                   last_response_id, current_chat_id, chats, threads, uiQueue, ctx, switched>>

\* update_auto_screenshots_interval after the settings dialog has saved the
\* interval new_interval: a changed interval is stored, and a chain that is on
\* is restarted with stop_auto_screenshots and start_auto_screenshots
update_auto_screenshots_interval(new_interval) ==
    /\ new_interval # auto_screenshots_interval
    /\ auto_screenshots_enabled => ChainLoad < MaxCycles
    /\ auto_screenshots_interval' = new_interval
    /\ IF auto_screenshots_enabled
       THEN take_auto_screenshot(uiQueue, TRUE)
       ELSE Quiet /\ UNCHANGED <<threads, uiQueue>>
    /\ UNCHANGED <<resolverVars, dispatches, armed, auto_screenshots_enabled,
                   analysis_in_progress, last_response_id, current_chat_id, chats,
                   ai_automation_enabled, ctx, switched>>

\* an in-place change of self.coordinates["buttons"]: it shows in
\* default_coordinates too when the two are one object
Store(buttons) ==
    /\ coordinates' = buttons
    /\ default_coordinates' = IF shared THEN buttons ELSE default_coordinates
    /\ UNCHANGED shared

remove_button(b) ==
    /\ Quiet
    /\ b \in DOMAIN coordinates
    /\ Store([x \in DOMAIN coordinates \ {b} |-> coordinates[x]])
    /\ UNCHANGED <<response_text, extracted, chainVars>>

add_button(b, coords) ==
    /\ Quiet
    /\ Store([x \in DOMAIN coordinates \cup {b} |->
                IF x = b THEN coords ELSE coordinates[x]])
    /\ UNCHANGED <<response_text, extracted, chainVars>>

update_button(b, coords) ==
    /\ Quiet
    /\ b \in DOMAIN coordinates
    /\ Store([coordinates EXCEPT ![b] = coords])
    /\ UNCHANGED <<response_text, extracted, chainVars>>

\* self.coordinates = self.default_coordinates.copy(), then save_coordinates
reset_to_defaults ==
    /\ Quiet
    /\ coordinates' = default_coordinates
    /\ shared' = TRUE
    /\ UNCHANGED <<default_coordinates, response_text, extracted, chainVars>>

\* four integers with width > 0 and height > 0
validate_coordinates(coords) ==
    /\ Len(coords) = 4
    /\ coords[3] > 0
    /\ coords[4] > 0

\* ------------------------------------------------- the coordinates dialog
\* the four entry fields X, Y, W, H
DialogCoords == [1..4 -> -MaxCoord..MaxCoord]

\* ids typed into the dialog
DialogIds == {"fold", "bet"}

\* NewButtonDialog.create_button
create_button(b, coords) ==
    /\ get_button_coordinates(b, coordinates) = <<>>
    /\ validate_coordinates(coords)
    /\ add_button(b, coords)

\* CoordinatesDialog.save_button
save_button(b, coords) ==
    /\ validate_coordinates(coords)
    /\ update_button(b, coords)

\* CoordinatesDialog.delete_button, confirmed
delete_button(b) == remove_button(b)

\* CoordinatesDialog.reset_coordinates, confirmed
reset_coordinates == reset_to_defaults

RegistryNext ==
    \/ \E b \in DialogIds, coords \in DialogCoords : create_button(b, coords)
    \/ \E b \in DialogIds, coords \in DialogCoords : save_button(b, coords)
    \/ \E b \in DialogIds : delete_button(b)
    \/ reset_coordinates

\* a first start, or a start that loads the default buttons from
\* coordinates.json (a dict of its own)
RegistryInit ==
    /\ coordinates = DefaultButtons
    /\ default_coordinates = DefaultButtons
    /\ shared \in BOOLEAN
    /\ response_text = <<>>
    /\ extracted = Pending
    /\ ChainInit

RegistrySpec == RegistryInit /\ [][RegistryNext]_vars

\* a thread of a capture cycle takes its next step
CycleThreadStep ==
    \E t \in threads :
        \/ AnalyzeBegin(t)
        \/ AnalyzeResponse(t)
        \/ AnalyzeFinally(t)
        \/ ChatSend(t)
        \/ ChatResponse(t)
        \/ ChatAct(t)

ManualThreadStep ==
    \E t \in threads :
        \/ ManualSend(t)
        \/ ManualResponse(t)

\* The chain with the hotkey, the automation switch and the registry edits.
ChainNext ==
    \/ toggle_auto_screenshots
    \/ TimerFires
    \/ IdleCallback
    \/ CycleThreadStep
    \/ save_settings
    \/ \E b \in EditedIds : remove_button(b)
    \/ \E b \in EditedIds, coords \in EditedCoords : add_button(b, coords)

ChainSpec == Init /\ [][ChainNext]_vars

\* One chain: the hotkey turns the chain on only when nothing of an earlier
\* chain is left, and off at any time.
SingleChainNext ==
    \/ (~auto_screenshots_enabled => ChainLoad = 0) /\ toggle_auto_screenshots
    \/ TimerFires
    \/ IdleCallback
    \/ CycleThreadStep
    \/ save_settings
    \/ \E b \in EditedIds : remove_button(b)
    \/ \E b \in EditedIds, coords \in EditedCoords : add_button(b, coords)

SingleChainSpec == Init /\ [][SingleChainNext]_vars

\* timers fire, queued callbacks run and threads finish; the user is free
FairChainSpec ==
    /\ ChainSpec
    /\ WF_vars(TimerFires)
    /\ WF_vars(IdleCallback)
    /\ WF_vars(CycleThreadStep)

\* The chain next to manual messages and chat switches: every writer of
\* last_response_id, and the automation switch.  Here the user starts the chain only when nothing of an
\* earlier chain is left.
ContextNext ==
    \/ (~auto_screenshots_enabled => ChainLoad = 0) /\ toggle_auto_screenshots
    \/ TimerFires
    \/ IdleCallback
    \/ CycleThreadStep
    \/ ManualThreadStep
    \/ send_message
    \/ \E c \in chats : set_current_chat(c)
    \/ create_new_chat
    \/ save_settings

ContextSpec == Init /\ [][ContextNext]_vars

UploadThreadStep == \E t \in threads : UploadResponse(t)

\* Every source of a reply while the chain is off: screenshots taken with the
\* button, manual messages and uploaded images, with the automation switch and
\* the registry edits.  Here the user starts an exchange when the threads of
\* the one before have finished.
AutomationNext ==
    \/ threads = {} /\ Len(uiQueue) <= MaxQueue /\ screenshot_button
    \/ TimerFires
    \/ IdleCallback
    \/ CycleThreadStep
    \/ ManualThreadStep
    \/ UploadThreadStep
    \/ threads = {} /\ send_message
    \/ threads = {} /\ analyze_uploaded_image
    \/ save_settings
    \/ \E b \in EditedIds : remove_button(b)
    \/ \E b \in EditedIds, coords \in EditedCoords : add_button(b, coords)

AutomationSpec == Init /\ [][AutomationNext]_vars

\* analysis_in_progress is still set, and what is left of the chain arms no
\* timer any more: no timer is pending and every thread in flight is a
\* _analyze_screenshot_async that has only its finally clause to run
Winding ==
    /\ analysis_in_progress
    /\ NumTimers(uiQueue) = 0
    /\ \A t \in CycleThreads : t.kind = "analyze" /\ t.pc = "finally"

\* One chain with restarts: the hotkey turns the chain on, and the settings
\* dialog changes the interval of a chain that is on, only when nothing of an
\* earlier chain is left or when what is left is winding down.
PacingNext ==
    \/ /\ ~auto_screenshots_enabled => (ChainLoad = 0 \/ Winding)
       /\ toggle_auto_screenshots
    \/ \E new_interval \in Intervals :
            /\ auto_screenshots_enabled => (ChainLoad = 0 \/ Winding)
            /\ update_auto_screenshots_interval(new_interval)
    \/ TimerFires
    \/ IdleCallback
    \/ CycleThreadStep
    \/ save_settings
    \/ \E b \in EditedIds : remove_button(b)
    \/ \E b \in EditedIds, coords \in EditedCoords : add_button(b, coords)

PacingSpec == Init /\ [][PacingNext]_vars

\* no thread runs, and there is room for one more continuation
Calm == threads = {} /\ ChainLoad < MaxCycles

\* Everything that starts a capture or an analysis: the hotkey, a changed
\* interval, the screenshot button and an uploaded image.  Here the user
\* acts while no thread runs.
ForkNext ==
    \/ Calm /\ toggle_auto_screenshots
    \/ \E new_interval \in Intervals :
            Calm /\ update_auto_screenshots_interval(new_interval)
    \/ Calm /\ screenshot_button
    \/ Calm /\ analyze_uploaded_image
    \/ TimerFires
    \/ IdleCallback
    \/ CycleThreadStep
    \/ UploadThreadStep
    \/ save_settings

ForkSpec == Init /\ [][ForkNext]_vars

\* One chain next to manual messages, in one chat session.
SharedContextNext ==
    \/ (~auto_screenshots_enabled => ChainLoad = 0) /\ toggle_auto_screenshots
    \/ TimerFires
    \/ IdleCallback
    \/ CycleThreadStep
    \/ ManualThreadStep
    \/ send_message
    \/ save_settings

SharedContextSpec == Init /\ [][SharedContextNext]_vars

\* ------------------------------------------------ the click on its own inputs
\* bounding boxes a registry may hold: add_button stores any list
Boxes ==
    {<<x, y, w, h>> : x \in -MaxSide..MaxSide, y \in -MaxSide..MaxSide,
                      w \in 0..MaxSide, h \in 0..MaxSide}

CenterInit ==
    /\ coordinates \in {[b \in {"fold"} |-> box] : box \in Boxes}
    /\ default_coordinates = DefaultButtons
    /\ shared = FALSE
    /\ response_text = <<>>
    /\ extracted = Pending
    /\ ChainInit

\* AutomationService.perform_button_action(button_id) called by itself
PerformClick ==
    /\ \E button_id \in {"fold", "call"} :
            IF perform_button_action(button_id, coordinates)
            THEN Click(button_id)
            ELSE Quiet
    /\ UNCHANGED <<resolverVars, chainVars>>

CenterNext == PerformClick

CenterSpec == CenterInit /\ [][CenterNext]_vars

\* ------------------------------------------- the resolver on its own inputs
ResolverInit ==
    /\ coordinates \in {[b \in S |-> <<0, 0, 1, 1>>] : S \in SUBSET ButtonIds}
    /\ default_coordinates = DefaultButtons
    /\ shared = FALSE
    /\ response_text \in Texts
    /\ extracted = Pending
    /\ ChainInit

Resolve ==
    /\ Quiet
    /\ extracted = Pending
    /\ extracted' = _extract_action_from_response(response_text, coordinates)
    /\ UNCHANGED <<coordinates, default_coordinates, shared, response_text, chainVars>>

ResolverNext == Resolve

ResolverSpec == ResolverInit /\ [][ResolverNext]_vars

\* ------------------------------------------------ properties of the resolver
\* The action objects of a reply, as a reader of the reply sees them: a '{',
\* a list of members of which one has the key "action", and a '}'.
ActionObjects(text) ==
    {o \in (1..Len(text)) \X (1..Len(text)) :
        /\ o[1] < o[2]
        /\ text[o[1]] = LB
        /\ text[o[2]] = RB
        /\ \A k \in (o[1] + 1)..(o[2] - 1) : IsMember(text[k])
        /\ \E k \in (o[1] + 1)..(o[2] - 1) : IsActionMember(text[k])}

\* the value of the "action" key of an action object (the last one wins)
ObjectAction(text, o) ==
    LET ks == {k \in (o[1] + 1)..(o[2] - 1) : IsActionMember(text[k])}
    IN  text[CHOOSE k \in ks : \A m \in ks : m <= k]

\* the registered button ids
Registered == DOMAIN coordinates

\* the legacy alias table of the specification
Canonical(s) ==
    CASE s \in {"button_fold", "fold"}   -> "fold"
      [] s \in {"button_call", "call"}   -> "call"
      [] s \in {"button_raise", "raise"} -> "raise"
      [] s \in {"button_check", "check"} -> "check"
      [] OTHER -> None

LegacyAliases == {"button_fold", "button_call"}

ResolvesTo(val, buttons) ==
    IF val[1] # "str" \/ val[2] = "" THEN None
    ELSE IF val[2] \in buttons THEN val[2]
    ELSE IF Canonical(val[2]) \in buttons THEN Canonical(val[2])
    ELSE None

Resolved == extracted # Pending

\* the reply is one action object {"action": "s"}, alone or inside prose
\* that has no braces of its own
SoleObject(text, s) ==
    /\ Cardinality({k \in 1..Len(text) : text[k] \in {LB, RB}}) = 2
    /\ \E i \in 1..(Len(text) - 2) : SubSeq(text, i, i + 2) = Obj(ActStr(s))

\* C6: for every registered id b, a reply with an action object whose action
\* is b, and with no earlier action object that resolves, resolves to b.
C6_ResolverExactness ==
    Resolved =>
        \A o \in ActionObjects(response_text) :
            LET v == ObjectAction(response_text, o)
            IN  (/\ v[1] = "str"
                 /\ v[2] \in Registered
                 /\ \A e \in ActionObjects(response_text) :
                        e[1] < o[1] =>
                            ResolvesTo(ObjectAction(response_text, e), Registered) = None)
                => extracted.ret = v[2]

C8_UnresolvableIsSafe ==
    Resolved =>
        /\ ~extracted.exc
        /\ (\A k \in 1..Len(response_text) :
                IsActionMember(response_text[k]) =>
                    ResolvesTo(response_text[k], Registered) = None)
            => extracted.ret = None

C8_Witness ==
    /\ Resolved
    /\ \E k \in 1..Len(response_text) : response_text[k] = ActList
    /\ \E k \in 1..Len(response_text) : response_text[k] = ActStr("nope")
    /\ \E k \in 1..Len(response_text) : response_text[k] = ActStr("button_call")
    /\ "call" \notin Registered
    /\ extracted.ret = None

C10_ResultIsRegistered ==
    (Resolved /\ extracted.ret # None) => extracted.ret \in Registered

C10_Witness ==
    /\ Resolved
    /\ extracted.ret = "call"
    /\ \A k \in 1..Len(response_text) : response_text[k] # ActStr("call")
    /\ Registered = {"call"}

\* --------------------------------------------------- properties of the chain
\* the cycles that have a background thread running
RunningCycles == {t.id : t \in CycleThreads}

\* C1: at most one capture/analyze/act cycle is in flight at any time, also
\* when the hotkey turns the chain off and on again during a cycle: no capture
\* begins before the earlier cycle has finished its analysis, its follow-up
\* chat exchange and its click dispatch.
C1_AtMostOneCycle == Cardinality(RunningCycles) <= 1

\* the last thread of cycle c finishes in this step
CycleEnds(c) ==
    /\ \E t \in threads : t.kind # "manual" /\ t.id = c
    /\ ~\E t \in threads' : t.kind # "manual" /\ t.id = c

\* take_auto_screenshot ran take_quick_screenshot in this step (from the
\* hotkey or from a timer) and no screenshot was captured
CaptureFails ==
    /\ auto_screenshots_enabled'
    /\ ~analysis_in_progress
    /\ threads' = threads
    /\ \/ ~auto_screenshots_enabled
       \/ uiQueue # <<>> /\ Head(uiQueue) = Timer /\ uiQueue' = Tail(uiQueue)

\* C2: every completed cycle arms exactly one continuation, whatever its
\* outcome: a cycle whose last thread finishes has armed one timer in all,
\* and a cycle that ends with a failed capture arms one as well.
C2_OneContinuationPerCycle ==
    [][/\ \A c \in 1..MaxCycles :
            CycleEnds(c) =>
                armed[c] + NumTimers(uiQueue') - NumTimers(uiQueue) = 1
       /\ CaptureFails => NumTimers(uiQueue') >= 1]_vars

\* C3: while auto_screenshots_enabled stays true the chain does not stop on
\* its own: with timers, callbacks and threads scheduled fairly, again and
\* again the chain is turned off or a timer or a cycle of it is under way.
C3_ChainNeverStops ==
    [](auto_screenshots_enabled => <>(~auto_screenshots_enabled \/ ChainLoad > 0))

\* thread t has posted its chat request in this step
Requests(t) ==
    /\ t \in threads' /\ t \notin threads
    /\ t.kind \in {"chat", "manual"} /\ t.pc = "request"

\* C4: after a successful exchange, manual or automated, the request of the
\* next exchange carries as previous_response_id the response_id that the
\* latest successful response returned (no chat was selected in between;
\* that case is C5).
C4_NextCarriesResponseId ==
    [][\A t \in threads' : (Requests(t) /\ ctx # -1) => t.prev = ctx]_vars

\* a manual exchange returned id 1, the automated one after it carried 1 and
\* returned 2, and the request now in flight carries 2
C4_Witness ==
    /\ ctx = 2
    /\ \E t \in threads : t.kind = "manual" /\ t.pc = "request" /\ t.prev = 2
    /\ \E t \in threads : t.kind = "chat" /\ t.pc = "request" /\ t.prev = 1

\* C5: after the user has switched to another chat session, by selecting it
\* or by creating a new chat, the request of the next exchange carries no
\* previous_response_id, also when a response to an earlier exchange arrives
\* after the switch.
C5_SwitchResetsToken ==
    \A t \in threads : (t.pc = "request" /\ t.fresh) => t.prev = NoneId

\* ------------------------------------------- properties of the automation
\* C11: when ai_automation_enabled is false at the time a reply is handled
\* (a manual chat reply, a screenshot analysis, a chained chat reply, an
\* uploaded-image analysis), no click is dispatched for it: a step taken
\* while the switch is off starts no dispatch, and the only click it can
\* issue belongs to a dispatch that a reply started while the switch was on.
C11_NoClickWhenDisabled ==
    [][~ai_automation_enabled =>
        /\ \A t \in threads' \ threads : t.pc # "acting"
        /\ out'.click # None => \E t \in threads \ threads' : t.pc = "acting"]_vars

\* a chained chat reply of an uploaded image was handled with the switch off
C11_Witness ==
    /\ ~ai_automation_enabled
    /\ out = [NoOut EXCEPT !.failures = 1, !.delay = SettleDelay]
    /\ UploadThreads = {}
    /\ \E i \in 1..Len(uiQueue) : uiQueue[i] = Check(Obj(ActStr("call")), 0)

\* C12: turning the chain off aborts nothing that is in flight, and while
\* auto_screenshots_enabled stays false no capture begins and a pending
\* take_auto_screenshot timer fires without effect.
C12_StopsAtBoundary ==
    [][/\ (auto_screenshots_enabled /\ ~auto_screenshots_enabled') =>
            (threads' = threads /\ uiQueue' = uiQueue)
       /\ (~auto_screenshots_enabled /\ ~auto_screenshots_enabled') =>
            /\ out'.attempts = 0
            /\ \A t \in threads' \ threads : ~(t.kind = "analyze" /\ t.pc = "start")
            /\ NumTimers(uiQueue') < NumTimers(uiQueue) =>
                    /\ NumTimers(uiQueue') = NumTimers(uiQueue) - 1
                    /\ threads' = threads
                    /\ out' = NoOut]_vars

\* the chain is off, and the cycle that was in flight has dispatched its
\* click and armed its timer
C12_Witness ==
    /\ ~auto_screenshots_enabled
    /\ out.click # None
    /\ threads = {}
    /\ NumTimers(uiQueue) = 1

\* the button id has coordinates that give a center
Usable(button_id) ==
    /\ button_id \in DOMAIN coordinates
    /\ Len(coordinates[button_id]) = 4

\* C16: when the resolved button id is not in the registry any more, or has
\* no usable coordinates, at the time the click is dispatched, no click is
\* issued, one error entry for that button is added and the next cycle is
\* scheduled all the same; no click is ever issued for such an id.
C16_MissingButtonIsReported ==
    [][/\ \A t \in threads \ threads' :
            (t.pc = "acting" /\ ~Usable(t.action)) =>
                /\ out'.click = None
                /\ out'.errors = 1
                /\ out'.missing = t.action
                /\ NumTimers(uiQueue') = NumTimers(uiQueue) + 1
       /\ out'.click # None => Usable(out'.click)]_vars

\* the error entry for "fold", removed from the registry after the reply
\* resolved to it, with the timer of the next cycle armed
C16_Witness ==
    /\ out.missing = "fold"
    /\ "fold" \notin DOMAIN coordinates
    /\ threads = {}
    /\ NumTimers(uiQueue) >= 1

\* --------------------------------------------- properties of the registry
\* C19: after any sequence of add_button, update_button, remove_button and
\* reset_to_defaults made through the coordinates dialog, every registered
\* button has a bounding box of four integers with width > 0, height > 0,
\* x >= 0 and y >= 0.
C19_BoxesAreValid ==
    \A b \in DOMAIN coordinates :
        /\ Len(coordinates[b]) = 4
        /\ coordinates[b][1] >= 0
        /\ coordinates[b][2] >= 0
        /\ coordinates[b][3] > 0
        /\ coordinates[b][4] > 0

\* ------------------------------------------ properties of the cycle's flag
\* C13: analysis_in_progress is true from the moment a capture begins until
\* the reply for that capture has been fully handled, the follow-up chat
\* exchange and the click included, and false only when no cycle is in
\* flight.
C13_FlagCoversCycle == analysis_in_progress <=> RunningCycles # {}

\* C14: the effects of a cycle are all applied before the capture of the next
\* cycle begins: when a capture starts an analysis thread, no thread and no
\* queued automation check of another cycle is left.
C14_CyclesInOrder ==
    [][(\E t \in threads' \ threads : t.kind = "analyze" /\ t.pc = "start")
            => LiveCycles = {}]_vars

\* C15: a capture that fails is retried once, so a cycle makes at most two
\* capture attempts; when the retry fails too the user gets one error entry
\* and the chain still arms the next take_auto_screenshot.
C15_CaptureRetry ==
    [][out'.attempts > 0 =>
        /\ out'.attempts <= 2
        /\ out'.failures = 1 =>
            /\ out'.errors = 1
            /\ NumTimers(uiQueue') >
                    NumTimers(uiQueue) - (IF auto_screenshots_enabled THEN 1 ELSE 0)]_vars

\* C17: every failure produces exactly one transcript entry: a step adds as
\* many error entries as failures occurred in it.
C17_OneEntryPerFailure == [][out'.errors = out'.failures]_vars

\* a background thread takes a step: its record leaves the set of threads
WorkerStep == \E t \in threads : t \notin threads'

\* C18: analysis_in_progress, auto_screenshots_enabled and last_response_id
\* are written only by steps of the UI loop, never by a step of a background
\* thread.
C18_WritesOnUiLoop ==
    [][WorkerStep =>
        /\ analysis_in_progress' = analysis_in_progress
        /\ auto_screenshots_enabled' = auto_screenshots_enabled
        /\ last_response_id' = last_response_id]_vars

\* ----------------------------------------- candidates of the resolver
\* the target of one candidate taken by itself: None when it does not parse,
\* has no action field, or has an action value that is no usable identifier
CandidateTarget(match) ==
    IF \A k \in 2..(Len(match) - 1) : IsMember(match[k])
    THEN LET ks == {k \in 2..(Len(match) - 1) : IsActionMember(match[k])}
         IN  IF ks = {} THEN None
             ELSE ResolvesTo(match[CHOOSE k \in ks : \A m \in ks : m <= k], Registered)
    ELSE None

\* C20: a candidate that does not parse, lacks an action field or carries an
\* action value that is no usable identifier is no match for that candidate
\* only: the resolver returns the target of the first candidate that
\* resolves, and "no action" when none does.
C20_BadCandidateIsSkipped ==
    Resolved =>
        LET matches == FindAll(response_text, 1)
            good == {i \in 1..Len(matches) : CandidateTarget(matches[i]) # None}
        IN  extracted.ret = IF good = {} THEN None
                            ELSE CandidateTarget(matches[Least(good)])

\* ------------------------------------------------- properties of the pacing
\* start_auto_screenshots is called in this step: by the hotkey that turns
\* the chain on, or by a changed interval while the chain is on
Restart ==
    \/ ~auto_screenshots_enabled /\ auto_screenshots_enabled'
    \/ auto_screenshots_enabled /\ auto_screenshots_interval' # auto_screenshots_interval

\* a take_auto_screenshot timer fires in this step and is not armed again
TimerConsumed ==
    /\ uiQueue # <<>>
    /\ Head(uiQueue) = Timer
    /\ uiQueue' = Tail(uiQueue)

\* C21: a take_auto_screenshot requested while analysis_in_progress and
\* auto_screenshots_enabled are true starts no capture and arms exactly one
\* retry with the fixed backoff: a restart adds one timer, a timer that fires
\* is replaced by one timer, and no timer is lost; and a timer that fires
\* when the flag has cleared, with the chain still on, starts a capture.
C21_DeferredRequest ==
    [][/\ (analysis_in_progress /\ auto_screenshots_enabled') =>
            /\ out'.attempts = 0
            /\ \A t \in threads' \ threads : ~(t.kind = "analyze" /\ t.pc = "start")
            /\ NumTimers(uiQueue') >= NumTimers(uiQueue)
            /\ Restart =>
                    /\ NumTimers(uiQueue') = NumTimers(uiQueue) + 1
                    /\ out'.delay = RetryDelay
            /\ (out'.delay = RetryDelay /\ ~Restart) =>
                    NumTimers(uiQueue') = NumTimers(uiQueue)
       /\ (TimerConsumed /\ auto_screenshots_enabled /\ ~analysis_in_progress) =>
            out'.attempts >= 1]_vars

\* the hotkey has turned the chain on while an analysis that had failed was
\* still to clear the flag: the request waits in its retry timer
C21_Witness ==
    /\ auto_screenshots_enabled
    /\ analysis_in_progress
    /\ out.delay = RetryDelay
    /\ uiQueue = <<Timer>>
    /\ \E t \in threads : t.kind = "analyze" /\ t.pc = "finally"

C23_FreshStartCapturesAtOnce ==
    [][(~auto_screenshots_enabled /\ auto_screenshots_enabled' /\ LiveCycles = {}) =>
            /\ out'.attempts >= 1
            /\ out'.delay = 0
            /\ NumTimers(uiQueue') = NumTimers(uiQueue)]_vars

\* the chain was turned on for the first time and its capture has started the
\* analysis thread
C23_Witness ==
    /\ auto_screenshots_enabled
    /\ out.attempts = 1
    /\ uiQueue = <<>>
    /\ last_response_id = NoneId
    /\ threads = {Thread("analyze", "start", 1, NoneId, None, FALSE)}

\* ------------------------------------------- properties of the shared context
\* the chat exchange of thread t ends in this step; it has succeeded when the
\* step adds no error entry
ExchangeEnds(t) ==
    /\ t \in threads /\ t \notin threads'
    /\ t.kind \in {"chat", "manual"} /\ t.pc = "request"

\* C24: manual and automated exchanges share one context without losing an
\* exchange: an exchange that succeeds was sent with the response id of the
\* latest successful exchange, so the id it stores for the next turn stands
\* for a context that holds every exchange completed before it.
C24_NoExchangeLost ==
    [][\A t \in threads :
            (ExchangeEnds(t) /\ out'.errors = 0 /\ ctx # -1) => t.prev = ctx]_vars

C25_ClickAtCenter ==
    [][out'.click # None =>
        LET box == coordinates[out'.click]
            x == box[1]
            y == box[2]
            w == box[3]
            h == box[4]
            cx == out'.point[1]
            cy == out'.point[2]
        IN  (w > 0 /\ h > 0) =>
                /\ cx = x + (w \div 2) /\ cy = y + (h \div 2)
                /\ x <= cx /\ cx < x + w
                /\ y <= cy /\ cy < y + h]_vars

\* the click for the box (-1, 1, 3, 1) went to (0, 1)
C25_Witness ==
    /\ out.click = "fold"
    /\ coordinates["fold"] = <<-1, 1, 3, 1>>
    /\ out.point = <<0, 1>>

\* C26: a capture cycle calls perform_button_action at most once: the
\* analysis text and the chat reply of one cycle never both lead to a call.
C26_OneDispatchPerCycle == \A c \in DOMAIN dispatches : dispatches[c] <= 1

\* the threads that arm a take_auto_screenshot timer when they end
Continuing == {t \in threads : t.kind = "chat"}

\* C27: the chain never forks: while auto_screenshots_enabled is true, the
\* pending take_auto_screenshot timers and the exchanges in flight that arm
\* one are at most one in all, whatever the user does with the hotkey, the
\* interval setting, the screenshot button and uploaded images.
C27_ChainNeverForks ==
    auto_screenshots_enabled => NumTimers(uiQueue) + Cardinality(Continuing) <= 1

\* C28: reset_to_defaults restores the built-in defaults (fold, call, raise,
\* check with their boxes) after any sequence of add_button, update_button
\* and remove_button: what it copies into the registry is never changed by
\* an edit of the registry.
C28_ResetRestoresDefaults == default_coordinates = DefaultButtons

\* add_message saves the entry under self.current_chat_id
SavedTo == current_chat_id

\* C29: the reply or error entry of an exchange is saved to the transcript
\* of the chat that was current when the exchange was issued, also when the
\* user switches chats while the exchange is in flight.
C29_EntryGoesToItsChat ==
    [][\A t \in threads :
            (t.pc = "request" /\ t \notin threads') => SavedTo = t.chat]_vars

====
